---- MODULE Spec2Model ----
(***************************************************************************)
(* Rental agreement analyzer: the step wizard (pages/Assessment2.py) and   *)
(* the JSON contract assistant (Assessment2.py).  One action is one run of  *)
(* a Streamlit script (one render of the page), taken as running to its   *)
(* end or to its st.stop() / st.rerun().  Strings are sequences of         *)
(* one-character strings, so slicing, upper-casing and joining are         *)
(* computed rather than assumed; the risk score is computed in binary64.   *)
(***************************************************************************)
EXTENDS Integers, Sequences, FiniteSets, TLC

\* ------------------------------------------------------------------ bounds
PageLen == 1000     \* characters of text on one PDF page
MaxPages == 3       \* pages in an uploaded PDF
MaxCount == 2       \* the call counters stop counting here
MaxClock == 1       \* seconds shown by the clock: 0..MaxClock
MaxItems == 5       \* items in one list of a JSON analysis result
MaxReports == 2     \* reports assembled from one mapping

\* ------------------------------------------------------- program constants
TruncLen == 2000    \* text[:2000]
BannerLen == 50     \* "=" * 50
RuleLen == 30       \* "=" * 30

\* ------------------------------------------------------------ text helpers
Min(a, b) == IF a < b THEN a ELSE b

Digits == <<"0", "1", "2", "3", "4", "5", "6", "7", "8", "9">>

LowerCase == <<"a", "b", "c", "d", "e", "f", "g", "h", "i", "j", "k", "l", "m",
               "n", "o", "p", "q", "r", "s", "t", "u", "v", "w", "x", "y", "z">>

UpperCase == <<"A", "B", "C", "D", "E", "F", "G", "H", "I", "J", "K", "L", "M",
               "N", "O", "P", "Q", "R", "S", "T", "U", "V", "W", "X", "Y", "Z">>

\* the upper-case letter of each lower-case letter
UpperOf ==
  [c \in {LowerCase[k] : k \in 1..26} |-> UpperCase[CHOOSE k \in 1..26 : LowerCase[k] = c]]

\* an upper() that leaves the text as it is
upper_Unchanged(s) == s

\* str.upper(), one character at a time
upper(s) ==
  CHOOSE u \in {[i \in 1..Len(t) |-> IF t[i] \in DOMAIN UpperOf THEN UpperOf[t[i]] ELSE t[i]] :
                t \in {s}} : TRUE

\* c * n
Repeat(c, n) == [i \in 1..n |-> c]

\* text[:n]
Slice(text, n) == SubSeq(text, 1, Min(n, Len(text)))

RECURSIVE JoinTo(_, _, _)
\* sep.join(parts[:k])
JoinTo(parts, sep, k) ==
  IF k = 0 THEN <<>>
  ELSE IF k = 1 THEN parts[1]
  ELSE JoinTo(parts, sep, k - 1) \o sep \o parts[k]

\* sep.join(parts); the singleton binding has the argument evaluated once
Join(parts, sep) == CHOOSE text \in {JoinTo(p, sep, Len(p)) : p \in {parts}} : TRUE

\* datetime.now().strftime('%Y-%m-%d %H:%M:%S'); the clock is the seconds field
strftime(now) ==
  <<"2", "0", "2", "4", "-", "0", "1", "-", "0", "1", " ", "0", "0", ":", "0", "0", ":">>
    \o <<Digits[(now \div 10) + 1], Digits[(now % 10) + 1]>>

\* ------------------------------------------------- binary64 floating point
\* A non-negative magnitude is a sequence of bits, least significant first,
\* with no leading zero bit (zero is <<>>), counting units of 2^-55: every
\* double that calculate_risk_score handles is a multiple of 2^-55.
ScaleBits == 55
MantBits == 53

RECURSIVE Norm(_)
\* drop the zero bits at the top
Norm(a) == IF a = <<>> \/ a[Len(a)] = 1 THEN a ELSE Norm(SubSeq(a, 1, Len(a) - 1))

RECURSIVE NatBits(_)
NatBits(n) == IF n = 0 THEN <<>> ELSE <<n % 2>> \o NatBits(n \div 2)

RECURSIVE AddC(_, _, _)
AddC(a, b, c) ==
  IF a = <<>> /\ b = <<>> THEN (IF c = 1 THEN <<1>> ELSE <<>>)
  ELSE LET x == IF a = <<>> THEN 0 ELSE Head(a)
           y == IF b = <<>> THEN 0 ELSE Head(b)
           s == x + y + c
       IN <<s % 2>> \o AddC(IF a = <<>> THEN a ELSE Tail(a),
                            IF b = <<>> THEN b ELSE Tail(b), s \div 2)

BigAdd(a, b) == AddC(a, b, 0)

RECURSIVE SubB(_, _, _)
SubB(a, b, c) ==
  IF a = <<>> THEN <<>>
  ELSE LET y == IF b = <<>> THEN 0 ELSE Head(b)
           d == Head(a) - y - c
       IN <<d % 2>> \o SubB(Tail(a), IF b = <<>> THEN b ELSE Tail(b),
                            IF d < 0 THEN 1 ELSE 0)

\* a - b for a >= b
BigSub(a, b) == Norm(SubB(a, b, 0))

RECURSIVE TopLess(_, _, _)
TopLess(a, b, i) ==
  IF i = 0 THEN FALSE
  ELSE IF a[i] # b[i] THEN a[i] < b[i]
  ELSE TopLess(a, b, i - 1)

\* a < b
BigLess(a, b) ==
  IF Len(a) # Len(b) THEN Len(a) < Len(b) ELSE TopLess(a, b, Len(a))

RECURSIVE MulSmall(_, _)
\* the exact product a * n
MulSmall(a, n) ==
  IF n = 0 \/ a = <<>> THEN <<>>
  ELSE LET h == MulSmall(a, n \div 2)
           d == IF h = <<>> THEN <<>> ELSE <<0>> \o h
       IN IF n % 2 = 1 THEN BigAdd(d, a) ELSE d

\* round to 53 significant bits, ties to even
Round53(a) ==
  IF Len(a) <= MantBits THEN a
  ELSE LET d == Len(a) - MantBits
           kept == SubSeq(a, d + 1, Len(a))
           guard == a[d]
           sticky == \E i \in 1..(d - 1) : a[i] = 1
           up == guard = 1 /\ (sticky \/ kept[1] = 1)
       IN Repeat(0, d) \o (IF up THEN BigAdd(kept, <<1>>) ELSE kept)

\* float(n) for an int n >= 0
FromInt(n) == IF n = 0 THEN <<>> ELSE Repeat(0, ScaleBits) \o NatBits(n)

RECURSIVE HexBits(_)
\* the bits of a hexadecimal numeral, given most significant digit first
HexBits(h) ==
  IF h = <<>> THEN <<>>
  ELSE LET n == h[Len(h)]
       IN <<n % 2, (n \div 2) % 2, (n \div 4) % 2, (n \div 8) % 2>>
            \o HexBits(SubSeq(h, 1, Len(h) - 1))

\* 0.3 is 0x13333333333333 * 2^-54 and 0.2 is 0x1999999999999A * 2^-55
Weight03 == <<0>> \o Norm(HexBits(<<1, 3, 3, 3, 3, 3, 3, 3, 3, 3, 3, 3, 3, 3>>))
Weight02 == Norm(HexBits(<<1, 9, 9, 9, 9, 9, 9, 9, 9, 9, 9, 9, 9, 10>>))

\* int * float and float * int, float + float
FMulInt(x, n) == Round53(MulSmall(x, n))
FAdd(x, y) == Round53(BigAdd(x, y))
\* float - float as [neg, mag]
FSub(x, y) ==
  IF BigLess(x, y) THEN [neg |-> TRUE, mag |-> Round53(BigSub(y, x))]
  ELSE [neg |-> FALSE, mag |-> Round53(BigSub(x, y))]

\* ------------------------------------------------------ JSON contract review
factors == <<"missing_terms", "unclear_terms", "unfair_terms", "legal_issues">>

risk_factors == [missing_terms |-> Weight03, unclear_terms |-> Weight02,
                 unfair_terms |-> Weight03, legal_issues |-> Weight02]

RECURSIVE total_score(_, _)
\* the loop of calculate_risk_score over the first k factors
total_score(analysis, k) ==
  IF k = 0 THEN <<>>
  ELSE LET factor == factors[k]
           before == total_score(analysis, k - 1)
       IN IF factor \in DOMAIN analysis
          THEN FAdd(before, FMulInt(risk_factors[factor], Len(analysis[factor])))
          ELSE before

calculate_risk_score(analysis) ==
  LET d == FSub(FromInt(100), FMulInt(total_score(analysis, 4), 10))
      lo == IF d.neg THEN <<>> ELSE d.mag
  IN IF BigLess(FromInt(100), lo) THEN FromInt(100) ELSE lo

\* a key check that only asks for a non-empty key
validate_api_key_NonEmpty(key) == key # << >>

\* validate_api_key: api_key.startswith('sk-')
validate_api_key(key) == Slice(key, 3) = <<"s", "k", "-">>

\* analyze_contract_with_ai: the whole contract_text is the user message.
\* reply.kind is "network" or "auth" (the request raises), "unparsable"
\* (json.loads raises) or "json" (reply.value is the parsed object).
analyze_contract_with_ai(contract_text, reply) ==
  [request |-> [task |-> "contract", text |-> contract_text],
   error |-> IF reply.kind = "json" THEN "none" ELSE reply.kind,
   result |-> IF reply.kind = "json" THEN reply.value ELSE [k \in {} |-> << >>]]

\* --------------------------------------------------------------- the wizard
\* One of the four prompt functions: the prompt embeds text[:2000]; an
\* exception of the remote call is reported and None is returned.
\* reply.kind is "network", "auth", "malformed" or "ok" (reply.content is
\* response.choices[0].message.content).
PromptCall(task, text, reply) ==
  [request |-> [task |-> task, text |-> Slice(text, TruncLen)],
   error |-> IF reply.kind = "ok" THEN "none" ELSE reply.kind,
   result |-> IF reply.kind = "ok" THEN reply.content ELSE << >>]

analyze_agreement(text, reply) == PromptCall("analysis", text, reply)
validate_terms(text, reply) == PromptCall("validation", text, reply)
generate_summary(text, reply) == PromptCall("summary", text, reply)
suggest_modifications(text, reply) == PromptCall("recommendations", text, reply)

\* a result check that takes the None of a failed call for a result
Truthy_IgnoresError(call) == TRUE

\* "if analysis:" -- None and the empty string are both false
Truthy(call) == call.error = "none" /\ call.result # << >>

\* what the run shows for a call: the st.error of the prompt function's except
\* branch, nothing for an empty reply, the result otherwise
Message(call) ==
  IF call.error # "none" THEN call.error
  ELSE IF call.result = << >> THEN "empty_reply" ELSE "ok"

\* the dict replaced by a new one that holds the one key
record_Overwrite(data, key, value) == [k \in {key} |-> value]

\* st.session_state.processed_data[key] = value
record(data, key, value) ==
  [k \in DOMAIN data \cup {key} |-> IF k = key THEN value ELSE data[k]]

RECURSIVE PagesTo(_, _)
\* the loop "for page in pdf_reader.pages: text += page.extract_text()", k rounds
PagesTo(pages, k) ==
  IF k = 0 THEN << >> ELSE PagesTo(pages, k - 1) \o pages[k]

ConcatPages(pages) == PagesTo(pages, Len(pages))

\* extract_text_from_pdf: the pages' text in page order, None when PdfReader raises
extract_text_from_pdf(pdf_file) ==
  IF pdf_file.valid
  THEN [error |-> "none", text |-> ConcatPages(pdf_file.pages)]
  ELSE [error |-> "extract", text |-> << >>]

Title == <<"R", "E", "N", "T", "A", "L", " ", "A", "G", "R", "E", "E", "M", "E", "N", "T", " ",
           "A", "N", "A", "L", "Y", "S", "I", "S", " ", "R", "E", "P", "O", "R", "T">>

GeneratedOn == <<"G", "e", "n", "e", "r", "a", "t", "e", "d", " ", "o", "n", ":", " ">>

RECURSIVE SectionsTo(_, _)
\* the loop over report_content.items(), k rounds: five list entries per section
SectionsTo(items, k) ==
  IF k = 0 THEN << >>
  ELSE SectionsTo(items, k - 1)
         \o << <<"\n">> \o Repeat("=", RuleLen),
                upper(items[k].section),
                Repeat("=", RuleLen) \o <<"\n">>,
                items[k].content,
                <<"\n">> >>

Sections(items) == CHOOSE list \in {SectionsTo(d, Len(d)) : d \in {items}} : TRUE

\* create_download_report: report_content is the dict as its sequence of
\* items in insertion order
create_download_report(report_content, now) ==
  Join(<< Repeat("=", BannerLen),
          Title,
          Repeat("=", BannerLen),
          <<"\n">> \o GeneratedOn \o strftime(now) \o <<"\n">> >>
         \o Sections(report_content),
       <<"\n">>)

InitialAnalysis == <<"I", "n", "i", "t", "i", "a", "l", " ", "A", "n", "a", "l", "y", "s", "i", "s">>
LegalValidation == <<"L", "e", "g", "a", "l", " ", "V", "a", "l", "i", "d", "a", "t", "i", "o", "n">>
Summary == <<"S", "u", "m", "m", "a", "r", "y">>
Recommendations == <<"R", "e", "c", "o", "m", "m", "e", "n", "d", "a", "t", "i", "o", "n", "s">>

\* the four section names in the order main declares them
SectionNames == <<InitialAnalysis, LegalValidation, Summary, Recommendations>>

\* the dict literal of main, step 5
final_report_data(data, modifications) ==
  << [section |-> InitialAnalysis, content |-> data["analysis"]],
     [section |-> LegalValidation, content |-> data["validation"]],
     [section |-> Summary, content |-> data["summary"]],
     [section |-> Recommendations, content |-> modifications] >>

\* ------------------------------------------------------------------- inputs
PageText(n) == [i \in 1..n |-> Digits[(i % 10) + 1]]

NoFile == [present |-> FALSE, valid |-> FALSE, pages |-> << >>]

\* what the uploader can hold: nothing, an unreadable file, or a PDF of 0..MaxPages pages
Uploads ==
  {NoFile, [present |-> TRUE, valid |-> FALSE, pages |-> << >>]}
    \cup {[present |-> TRUE, valid |-> TRUE, pages |-> p] :
            p \in {[i \in 1..n |-> PageText(PageLen)] : n \in 0..MaxPages}}

Contents == {<<"A">>, <<"b", "c">>}

\* outcomes of one chat-completion request of the wizard
Replies ==
  {[kind |-> k, content |-> << >>] : k \in {"network", "auth", "malformed"}}
    \cup {[kind |-> "ok", content |-> c] : c \in Contents \cup {<< >>}}

Clock == 0..MaxClock

NoKey == << >>
SecretKey == <<"s", "k", "-", "1">>
Keys == {NoKey, SecretKey, <<"k", "e", "y">>}

EmptyDict == [k \in {} |-> << >>]

Items(n) == [i \in 1..n |-> "item"]

AnalysisOf(m, u, f, l) ==
  [missing_terms |-> Items(m), unclear_terms |-> Items(u),
   unfair_terms |-> Items(f), legal_issues |-> Items(l)]

\* parsed replies of the JSON assistant
ParsedReplies ==
  {EmptyDict, AnalysisOf(0, 0, 0, 0), AnalysisOf(1, 0, 2, 0),
   [missing_terms |-> Items(2), suggestions |-> Items(1)]}

JsonReplies ==
  {[kind |-> k, value |-> EmptyDict] : k \in {"network", "auth", "unparsable"}}
    \cup {[kind |-> "json", value |-> v] : v \in ParsedReplies}

ContractTexts == {<< >>, PageText(PageLen), PageText(3 * PageLen)}

\* -------------------------------------------------------------------- state
VARIABLES
  app,              \* which script the session runs: "wizard" or "json"
  api_key,          \* wizard: OPENAI_API_KEY; json: the key typed in the sidebar
  current_step,     \* st.session_state.current_step
  agreement_text,   \* st.session_state.agreement_text
  processed_data,   \* st.session_state.processed_data
  progress,         \* st.session_state.progress
  session_json,     \* the session keys of the JSON assistant
  rerun_requested,  \* st.rerun() ended the latest run
  widgets,          \* the buttons the latest run put on the page
  click,            \* what started the latest run
  outcome,          \* the message the latest run showed
  request,          \* the chat-completion request the latest run sent
  report,           \* the data of the download button the latest run rendered
  remote_calls,     \* chat-completion requests sent, counted up to MaxCount
  extract_calls,    \* extract_text_from_pdf calls, counted up to MaxCount
  analysis_results, \* json: the parsed analysis the latest run displayed
  risk_score,       \* json: the risk score the latest run displayed
  report_content,   \* SpecReport: the argument of create_download_report
  reports           \* SpecReport: the reports assembled from report_content

session == <<current_step, agreement_text, processed_data, progress>>
page == <<rerun_requested, widgets, click, outcome, request, report>>
counters == <<remote_calls, extract_calls>>
jsonpage == <<analysis_results, risk_score>>
harness == <<report_content, reports>>
vars == <<app, api_key, session, session_json, page, counters, jsonpage, harness>>

NoRequest == [task |-> "none", text |-> << >>]
NoReport == << >>
NoScore == [shown |-> FALSE, value |-> << >>]

Count(n) == Min(n + 1, MaxCount)

\* initialize_session_state, and lines 30-37 of the JSON assistant
InitialSession ==
  /\ current_step = 0
  /\ agreement_text = << >>
  /\ processed_data = EmptyDict
  /\ progress = 0
  /\ session_json = [contract_text |-> << >>, analysis_results |-> EmptyDict,
                     suggestions |-> EmptyDict, risk_score |-> EmptyDict]

BlankPage ==
  /\ rerun_requested = FALSE
  /\ widgets = {}
  /\ click = "none"
  /\ outcome = "none"
  /\ request = NoRequest
  /\ report = NoReport
  /\ remote_calls = 0
  /\ extract_calls = 0
  /\ risk_score = NoScore

Init ==
  /\ app \in {"wizard", "json"}
  /\ api_key \in (IF app = "wizard" THEN {NoKey, SecretKey} ELSE {NoKey})
  /\ InitialSession
  /\ BlankPage
  /\ analysis_results = EmptyDict
  /\ report_content = << >>
  /\ reports = << >>

\* a run starts by itself after st.rerun(), else on a click or a plain rerun
Trigger(c) ==
  IF rerun_requested THEN c = "auto" ELSE c \in widgets \cup {"rerun"}

\* get_openai_client: a missing key stops the script
ConfigError(c) ==
  /\ app = "wizard"
  /\ Trigger(c)
  /\ api_key = NoKey
  /\ click' = c
  /\ outcome' = "config_error"
  /\ widgets' = {}
  /\ request' = NoRequest
  /\ report' = NoReport
  /\ rerun_requested' = FALSE
  /\ UNCHANGED <<app, api_key, session, session_json, counters, jsonpage, harness>>

\* "if text:" -- None and the empty string are both false
HasText(got) == got.error = "none" /\ got.text # << >>

\* main, step 1: upload and extraction
UploadDocument(c, uploaded_file) ==
  /\ app = "wizard"
  /\ Trigger(c)
  /\ api_key # NoKey
  /\ current_step = 0
  /\ click' = c
  /\ widgets' = {}
  /\ request' = NoRequest
  /\ report' = NoReport
  /\ IF ~uploaded_file.present
     THEN /\ outcome' = "idle"
          /\ rerun_requested' = FALSE
          /\ UNCHANGED <<session, counters>>
     ELSE LET got == extract_text_from_pdf(uploaded_file)
          IN /\ extract_calls' = Count(extract_calls)
             /\ UNCHANGED remote_calls
             /\ outcome' = (IF got.error # "none" THEN "extract_error"
                             ELSE IF got.text = << >> THEN "empty_text" ELSE "uploaded")
             /\ IF HasText(got)
                THEN /\ agreement_text' = got.text
                     /\ current_step' = 1
                     /\ progress' = 20
                     /\ rerun_requested' = TRUE
                     /\ UNCHANGED processed_data
                ELSE /\ rerun_requested' = FALSE
                     /\ UNCHANGED session
  /\ UNCHANGED <<app, api_key, session_json, jsonpage, harness>>

\* what the three middle steps share: run the prompt, and on a result store it
\* under key, move the cursor and the progress bar, and show the button
PromptStep(c, call, key, next_step, next_progress, button) ==
  /\ app = "wizard"
  /\ Trigger(c)
  /\ api_key # NoKey
  /\ click' = c
  /\ request' = call.request
  /\ remote_calls' = Count(remote_calls)
  /\ report' = NoReport
  /\ rerun_requested' = FALSE
  /\ outcome' = Message(call)
  /\ IF Truthy(call)
     THEN /\ processed_data' = record(processed_data, key, call.result)
          /\ current_step' = next_step
          /\ progress' = next_progress
          /\ widgets' = {button}
          /\ UNCHANGED agreement_text
     ELSE /\ widgets' = {}
          /\ UNCHANGED session
  /\ UNCHANGED <<app, api_key, session_json, extract_calls, jsonpage, harness>>

\* main, step 2
InitialAnalysisStep(c, reply) ==
  /\ current_step = 1
  /\ PromptStep(c, analyze_agreement(agreement_text, reply), "analysis", 2, 40,
                "Continue to Validation")

\* main, step 3
LegalValidationStep(c, reply) ==
  /\ current_step = 2
  /\ PromptStep(c, validate_terms(agreement_text, reply), "validation", 3, 60,
                "Continue to Summary")

\* main, step 4
SummaryStep(c, reply) ==
  /\ current_step = 3
  /\ PromptStep(c, generate_summary(agreement_text, reply), "summary", 4, 80,
                "Continue to Final Report")

\* a reset that forgets to empty processed_data
StartNewAnalysis_KeepsResults ==
  /\ current_step' = 0
  /\ progress' = 0
  /\ agreement_text' = << >>
  /\ rerun_requested' = TRUE
  /\ UNCHANGED processed_data

\* the body of "if st.button('Start New Analysis')": the progress was set to
\* 100 just before, then the four session keys are reset and the script reruns
StartNewAnalysis ==
  /\ current_step' = 0
  /\ progress' = 0
  /\ agreement_text' = << >>
  /\ processed_data' = EmptyDict
  /\ rerun_requested' = TRUE

\* main, step 5: recommendations, report, download and reset buttons
FinalReportStep(c, reply, now) ==
  /\ app = "wizard"
  /\ Trigger(c)
  /\ api_key # NoKey
  /\ current_step = 4
  /\ LET call == suggest_modifications(agreement_text, reply)
     IN /\ click' = c
        /\ request' = call.request
        /\ remote_calls' = Count(remote_calls)
        /\ outcome' = Message(call)
        /\ IF Truthy(call)
           THEN /\ report' = create_download_report(
                               final_report_data(processed_data, call.result), now)
                /\ widgets' = {"Download Report", "Start New Analysis"}
                /\ IF c = "Start New Analysis"
                   THEN StartNewAnalysis
                   ELSE /\ progress' = 100
                        /\ rerun_requested' = FALSE
                        /\ UNCHANGED <<current_step, agreement_text, processed_data>>
           ELSE /\ report' = NoReport
                /\ widgets' = {}
                /\ rerun_requested' = FALSE
                /\ UNCHANGED session
  /\ UNCHANGED <<app, api_key, session_json, extract_calls, jsonpage, harness>>

\* main of the JSON assistant: one run of the page
ReviewContract(pressed, contract_text, key, reply) ==
  /\ app = "json"
  /\ api_key' = key
  /\ click' = (IF pressed THEN "Start Analysis" ELSE "rerun")
  /\ IF ~pressed
     THEN /\ outcome' = "idle"
          /\ request' = NoRequest
          /\ analysis_results' = EmptyDict
          /\ risk_score' = NoScore
          /\ UNCHANGED remote_calls
     ELSE IF contract_text = << >>
     THEN /\ outcome' = "no_contract"
          /\ request' = NoRequest
          /\ analysis_results' = EmptyDict
          /\ risk_score' = NoScore
          /\ UNCHANGED remote_calls
     ELSE IF ~validate_api_key(key)
     THEN /\ outcome' = "bad_key"
          /\ request' = NoRequest
          /\ analysis_results' = EmptyDict
          /\ risk_score' = NoScore
          /\ UNCHANGED remote_calls
     ELSE LET call == analyze_contract_with_ai(contract_text, reply)
          IN /\ request' = call.request
             /\ remote_calls' = Count(remote_calls)
             /\ outcome' = (IF call.error # "none" THEN call.error
                             ELSE IF DOMAIN call.result = {} THEN "empty_reply" ELSE "ok")
             /\ IF call.error = "none" /\ DOMAIN call.result # {}
                THEN /\ analysis_results' = call.result
                     /\ risk_score' = [shown |-> TRUE,
                                       value |-> calculate_risk_score(call.result)]
                ELSE /\ analysis_results' = EmptyDict
                     /\ risk_score' = NoScore
  /\ UNCHANGED <<app, session, session_json, rerun_requested, widgets, report,
                 extract_calls, harness>>

Triggers == {"auto", "rerun", "Continue to Validation", "Continue to Summary",
             "Continue to Final Report", "Download Report", "Start New Analysis"}

Next ==
  \/ \E c \in Triggers : ConfigError(c)
  \/ \E c \in Triggers, f \in Uploads : UploadDocument(c, f)
  \/ \E c \in Triggers, r \in Replies : InitialAnalysisStep(c, r)
  \/ \E c \in Triggers, r \in Replies : LegalValidationStep(c, r)
  \/ \E c \in Triggers, r \in Replies : SummaryStep(c, r)
  \/ \E c \in Triggers, r \in Replies, now \in Clock : FinalReportStep(c, r, now)
  \/ \E pressed \in BOOLEAN, t \in ContractTexts, k \in Keys, r \in JsonReplies :
       ReviewContract(pressed, t, k, r)

Spec == Init /\ [][Next]_vars

\* ------------------------------------------- create_download_report alone
\* the items of a dict built like main's literal, with some keys left out
ItemsOf(present, content) ==
  LET all == [i \in 1..4 |-> [section |-> SectionNames[i], content |-> content[i],
                              keep |-> present[i]]]
      Keep(x) == x.keep
      kept == SelectSeq(all, Keep)
  IN [i \in 1..Len(kept) |-> [section |-> kept[i].section, content |-> kept[i].content]]

ReportInputs ==
  {ItemsOf(present, content) : present \in [1..4 -> BOOLEAN], content \in [1..4 -> Contents]}

ReportInit ==
  /\ app = "none"
  /\ api_key = NoKey
  /\ InitialSession
  /\ BlankPage
  /\ analysis_results = EmptyDict
  /\ report_content \in ReportInputs
  /\ reports = << >>

\* one call create_download_report(report_content) at clock time now
AssembleReport(now) ==
  /\ Len(reports) < MaxReports
  /\ reports' = Append(reports, [now |-> now,
                                  text |-> create_download_report(report_content, now)])
  /\ UNCHANGED <<app, api_key, session, session_json, page, counters, jsonpage,
                 report_content>>

ReportNext == \E now \in Clock : AssembleReport(now)

SpecReport == ReportInit /\ [][ReportNext]_vars

\* --------------------------------------------------- calculate_risk_score alone
\* an analysis result: each of the four keys absent (-1) or a list of n items
AnalysisFrom(lens) ==
  [f \in {factors[i] : i \in {j \in 1..4 : lens[j] >= 0}} |->
     Items(lens[CHOOSE i \in 1..4 : factors[i] = f])]

RiskInputs == {AnalysisFrom(lens) : lens \in [1..4 -> (-1)..MaxItems]}

RiskInit ==
  /\ app = "none"
  /\ api_key = NoKey
  /\ InitialSession
  /\ BlankPage
  /\ analysis_results \in RiskInputs
  /\ report_content = << >>
  /\ reports = << >>

\* risk_score = calculate_risk_score(analysis_results)
ScoreRisk ==
  /\ ~risk_score.shown
  /\ risk_score' = [shown |-> TRUE, value |-> calculate_risk_score(analysis_results)]
  /\ UNCHANGED <<app, api_key, session, session_json, page, counters, analysis_results,
                 harness>>

RiskNext == ScoreRisk

SpecRisk == RiskInit /\ [][RiskNext]_vars

\* ------------------------------------------------------- the wizard, kept going
\* a reply that carries a result
OkReplies == {r \in Replies : r.kind = "ok" /\ r.content # << >>}

\* Runs keep occurring and each task's call succeeds at some run.
LiveSpec ==
  /\ Spec
  /\ WF_vars(\E c \in Triggers : ConfigError(c))
  /\ WF_vars(\E c \in Triggers, r \in OkReplies : InitialAnalysisStep(c, r))
  /\ WF_vars(\E c \in Triggers, r \in OkReplies : LegalValidationStep(c, r))
  /\ WF_vars(\E c \in Triggers, r \in OkReplies : SummaryStep(c, r))
  /\ WF_vars(\E c \in Triggers, r \in OkReplies, now \in Clock : FinalReportStep(c, r, now))

\* ------------------------------------------------------------------- claims
StoredTasks == <<"analysis", "validation", "summary">>
Tasks == {"analysis", "validation", "summary", "recommendations"}

\* the task's remote call has returned a result in this session
Returned(t) ==
  IF t = "recommendations" THEN current_step = 4 /\ progress = 100
  ELSE t \in DOMAIN processed_data

\* C1: every request carries at most the first 2000 characters of the
\* document: the embedded text is no longer than 2000 characters and, in the
\* wizard, is the beginning of the stored document.
C1_OnlyFirst2000 ==
  request.task # "none" =>
    /\ Len(request.text) <= TruncLen
    /\ (app = "wizard" /\ agreement_text # << >>) =>
         request.text = SubSeq(agreement_text, 1, Len(request.text))

\* C1, the wizard alone: each of the four prompts embeds exactly text[:2000].
C1_WizardTruncates ==
  [][(app = "wizard" /\ request'.task # "none") =>
       /\ request'.text = SubSeq(agreement_text, 1, Min(TruncLen, Len(agreement_text)))
       /\ Len(request'.text) <= TruncLen]_vars

C1_WizardLongDocument ==
  /\ app = "wizard"
  /\ request.task = "recommendations"
  /\ Len(agreement_text) > TruncLen
  /\ Len(request.text) = TruncLen

\* C2: once a task's call has returned a result in a session, no later run
\* of the session issues that task's call again, and a stored result is not
\* changed while the session lasts.
C2_CalledOnce ==
  [][\A t \in Tasks :
       Returned(t) =>
         /\ request'.task # t
         /\ (t \in DOMAIN processed_data /\ current_step' # 0) =>
              (t \in DOMAIN processed_data' /\ processed_data'[t] = processed_data[t])]_vars

\* C2, the three stored tasks alone.
C2_StoredCalledOnce ==
  [][\A i \in 1..3 :
       StoredTasks[i] \in DOMAIN processed_data =>
         /\ request'.task # StoredTasks[i]
         /\ current_step' # 0 =>
              /\ StoredTasks[i] \in DOMAIN processed_data'
              /\ processed_data'[StoredTasks[i]] = processed_data[StoredTasks[i]]]_vars

SessionIsInitial ==
  /\ current_step = 0
  /\ progress = 0
  /\ agreement_text = << >>
  /\ DOMAIN processed_data = {}

\* C3: the cursor moves backward only in the run that handles the click on
\* 'Start New Analysis', and that run leaves cursor 0, progress 0, no
\* document and no result; in no state is the cursor 0 with a document or a
\* result present, or the document unset with the cursor past 0.
C3_ResetIsAtomic ==
  /\ [](current_step = 0 <=> agreement_text = << >>)
  /\ [](current_step = 0 => SessionIsInitial)
  /\ [][current_step' < current_step =>
          (click' = "Start New Analysis" /\ SessionIsInitial')]_vars

C3_AfterReset ==
  /\ click = "Start New Analysis"
  /\ outcome = "ok"
  /\ SessionIsInitial
  /\ remote_calls = MaxCount

Failures == {"extract_error", "empty_text", "network", "auth", "malformed", "unparsable"}

\* C4: a run whose step fails (extraction raises or yields no text, the remote
\* call fails, the JSON reply does not parse) leaves the session state as it
\* was: cursor, progress, document and results.
C4_FailureKeepsSession ==
  [][outcome' \in Failures => UNCHANGED <<session, session_json>>]_vars

C4_FailedLateStep ==
  /\ outcome = "malformed"
  /\ current_step = 3
  /\ DOMAIN processed_data = {"analysis", "validation"}

\* the credential is missing: the wizard's key is unset or empty, the JSON
\* assistant's key is empty or does not start with 'sk-'
CredentialMissing ==
  IF app = "wizard" THEN api_key = << >>
  ELSE Len(api_key) < 3 \/ SubSeq(api_key, 1, 3) # <<"s", "k", "-">>

\* C7: a run with a missing credential sends no request and extracts no
\* document, so the two call counts stay as they were; in the wizard, whose
\* credential never changes, they stay 0.
C7_NoCallWithoutCredential ==
  /\ []((app = "wizard" /\ CredentialMissing) =>
          (remote_calls = 0 /\ extract_calls = 0 /\ request = NoRequest))
  /\ [][CredentialMissing' =>
          (request' = NoRequest /\ UNCHANGED counters)]_vars

C7_RunWithoutCredential ==
  /\ app = "json"
  /\ outcome = "bad_key"
  /\ api_key = <<"k", "e", "y">>
  /\ remote_calls > 0

\* C8: a result is stored only after the results of the tasks before it, a
\* task's call is issued only with the document set and every earlier result
\* stored, and at step 4 the three results the report reads all exist.
C8_Ordered ==
  /\ [](\A i \in 2..3 : StoredTasks[i] \in DOMAIN processed_data =>
                          StoredTasks[i - 1] \in DOMAIN processed_data)
  /\ [](current_step = 4 => DOMAIN processed_data = {"analysis", "validation", "summary"})
  /\ [][\A t \in Tasks :
          (app = "wizard" /\ request'.task = t) =>
            /\ agreement_text # << >>
            /\ \A i \in 1..3 :
                 (t = "recommendations" \/ \E j \in (i + 1)..3 : StoredTasks[j] = t) =>
                   StoredTasks[i] \in DOMAIN processed_data]_vars

C8_ReportReady ==
  /\ current_step = 4
  /\ progress = 100
  /\ request.task = "recommendations"
  /\ report # NoReport

\* s occurs in text at position p
At(text, p, s) ==
  /\ p >= 1
  /\ p + Len(s) - 1 <= Len(text)
  /\ SubSeq(text, p, p + Len(s) - 1) = s

\* the first position from `from` on where s occurs in text, 0 if none
Find(text, s, from) ==
  LET hits == {p \in from..(Len(text) - Len(s) + 1) : At(text, p, s)}
  IN IF hits = {} THEN 0 ELSE CHOOSE p \in hits : \A q \in hits : p <= q

RECURSIVE InOrder(_, _, _)
\* the blocks occur in text one after the other, from position `from` on
InOrder(text, blocks, from) ==
  IF blocks = << >> THEN TRUE
  ELSE LET p == Find(text, Head(blocks), from)
       IN p # 0 /\ InOrder(text, Tail(blocks), p + Len(Head(blocks)))

\* report_content holds the four fixed tasks in the declared order
AllTasksPresent ==
  /\ Len(report_content) = 4
  /\ \A i \in 1..4 : report_content[i].section = SectionNames[i]

UpperNames ==
  << <<"I", "N", "I", "T", "I", "A", "L", " ", "A", "N", "A", "L", "Y", "S", "I", "S">>,
     <<"L", "E", "G", "A", "L", " ", "V", "A", "L", "I", "D", "A", "T", "I", "O", "N">>,
     <<"S", "U", "M", "M", "A", "R", "Y">>,
     <<"R", "E", "C", "O", "M", "M", "E", "N", "D", "A", "T", "I", "O", "N", "S">> >>

\* where the timestamp sits: after the two banners, the title and "Generated on: "
StampFrom == 2 * BannerLen + Len(Title) + Len(GeneratedOn) + 5
StampTo == StampFrom + Len(strftime(0)) - 1

OnlyStampDiffers ==
  \A a, b \in 1..Len(reports) :
    /\ Len(reports[a].text) = Len(reports[b].text)
    /\ At(reports[a].text, StampFrom, strftime(reports[a].now))
    /\ \A p \in 1..Len(reports[a].text) :
         reports[a].text[p] # reports[b].text[p] => p \in StampFrom..StampTo

\* C5 as stated: in the report of the four tasks each upper-cased name is
\* followed immediately by the task's Result text, the sections come in the
\* declared order, and two reports of the same Results differ only in the
\* timestamp.
C5_NameThenResult ==
  AllTasksPresent =>
    /\ \A r \in 1..Len(reports) :
         InOrder(reports[r].text,
                 [i \in 1..4 |-> UpperNames[i] \o report_content[i].content], 1)
    /\ OnlyStampDiffers

\* C5 amended: each upper-cased name is followed by a line break, a rule of
\* thirty "=", a blank line and then the task's Result text; the sections
\* come in the declared order; two reports of the same Results differ only in
\* the timestamp.
C5_NameRuleResult ==
  AllTasksPresent =>
    /\ \A r \in 1..Len(reports) :
         InOrder(reports[r].text,
                 [i \in 1..4 |-> UpperNames[i] \o <<"\n">> \o [k \in 1..RuleLen |-> "="]
                                   \o <<"\n", "\n">> \o report_content[i].content], 1)
    /\ OnlyStampDiffers

C5_TwoReports ==
  /\ AllTasksPresent
  /\ Len(reports) = 2
  /\ reports[1].now # reports[2].now
  /\ report_content[1].content # report_content[2].content

\* C6: create_download_report returns a report only when the mapping holds
\* all four tasks; with a task missing it raises and returns nothing.
C6_RequiresAllTasks ==
  reports # << >> =>
    \A i \in 1..4 : \E j \in 1..Len(report_content) :
      report_content[j].section = SectionNames[i]

\* the number of items under a key, 0 for an absent key
Count0(analysis, key) == IF key \in DOMAIN analysis THEN Len(analysis[key]) ELSE 0

Deduction(analysis) ==
  3 * Count0(analysis, "missing_terms") + 2 * Count0(analysis, "unclear_terms")
    + 3 * Count0(analysis, "unfair_terms") + 2 * Count0(analysis, "legal_issues")

\* C10: the score lies in 0..100 and equals
\* max(0, 100 - (3*missing + 2*unclear + 3*unfair + 2*legal)), an absent key
\* counting as 0.
C10_ExactScore ==
  risk_score.shown =>
    /\ ~BigLess(FromInt(100), risk_score.value)
    /\ risk_score.value =
         FromInt(IF Deduction(analysis_results) > 100 THEN 0
                 ELSE 100 - Deduction(analysis_results))

ReportReady ==
  /\ current_step = 4
  /\ progress = 100
  /\ report # NoReport

CallFailures == {"network", "auth", "malformed", "empty_reply"}

\* C9, first part: after a run whose call failed, the next run issues the
\* call of the same task.
C9_RetrySameTask ==
  [][(app = "wizard" /\ request.task # "none" /\ outcome \in CallFailures) =>
       request'.task = request.task]_vars

\* C9, second part: with runs recurring and each call succeeding at some run,
\* an uploaded document leads to the report-ready state.
C9_ReachesReport == (app = "wizard" /\ current_step >= 1) ~> ReportReady

\* C9: a failed call is retried by the next run; an uploaded document leads
\* to the report-ready state; and a click on 'Start New Analysis' leads to
\* the initial session state.
C9_RetryReportReset ==
  /\ C9_RetrySameTask
  /\ C9_ReachesReport
  /\ (click = "Start New Analysis") ~> SessionIsInitial

====
